---- MODULE Spec2Model ----
(***************************************************************************)
(* OAuth 2.0 authorization-code + PKCE flow and session lifecycle of the   *)
(* Salesforce validation bridge back end: the two revisions of             *)
(* routes/auth.routes.js, the express-session layer configured in          *)
(* server.js, and the identity provider they talk to.                      *)
(*                                                                         *)
(* Strings whose content matters (hosts, URLs, instance_url) are sequences *)
(* of lexical tokens, so that concatenation and the trailing-slash strip   *)
(* are computed.  Other strings are TLA+ strings; "" is the absent / empty *)
(* (falsy) value, 0 the absent verifier or code.                           *)
(***************************************************************************)
EXTENDS Integers, Sequences, FiniteSets, TLC

VARIABLES
    ver,        \* which revision of auth.routes.js the server mounts (1 or 2)
    store,      \* the session store: session id -> stored session record
    cookie,     \* the browser's sf.sid cookie (0: none)
    reqs,       \* the requests in flight, in order of arrival: each handler's locals and position
    nextLogin,  \* number of the next PKCE verifier generateCodeVerifier() returns
    authz,      \* login attempts redirected to the provider: attempt -> the challenge
                \* its code is bound to, and the pending verifier the attempt replaced
    resp,       \* the response sent by the last step (NoResponse when it sent none)
    srv         \* the server process of server.js: start-up phase, middleware stack,
                \* Redis client, session store, warnings logged, last request served

vars == <<ver, store, cookie, reqs, nextLogin, authz, resp, srv>>

\* The variables of the OAuth flow.
flow == <<ver, store, cookie, reqs, nextLogin, authz, resp>>

\* ------------------------------------------------------------------ bounds
MaxLogins == 2      \* /login requests in one behaviour (verifiers generated)

\* ------------------------------------------------------------------ strings
StripTrailingSlash(s) ==
    IF Len(s) > 0 /\ s[Len(s)] = "/" THEN SubSeq(s, 1, Len(s) - 1) ELSE s

\* JavaScript's a || b on strings.
Or(a, b) == IF a # "" THEN a ELSE b

\* ------------------------------------------------------------------ config
ProductionDomain == <<"https://", "login", ".salesforce.com">>
SandboxDomain == <<"https://", "test", ".salesforce.com">>
FrontendUrl == <<"https://", "frontend">>

\* ------------------------------------------------------------------ PKCE
\* generateCodeChallenge: deterministic and one-to-one (S256 of the verifier).
generateCodeChallenge(v) == <<"S256", v>>

\* ------------------------------------------------------------------ inputs
\* The query of /login: domain and customDomain.
LoginQueries ==
    {[domain |-> "", customDomain |-> <<>>],
     [domain |-> "sandbox", customDomain |-> <<>>],
     [domain |-> "custom", customDomain |-> <<"acme.my", ".salesforce.com">>],
     [domain |-> "custom", customDomain |-> <<"evil", ".com">>]}

\* Queries whose domain value selects no host of its own: custom without a
\* customDomain, and a value the handlers do not know.
DefaultedLoginQueries ==
    {[domain |-> "custom", customDomain |-> <<>>],
     [domain |-> "staging", customDomain |-> <<>>]}
Codes == 0..MaxLogins
ErrorParams == {"", "access_denied"}
ErrorDescriptions == {"", "user denied"}

\* What the token endpoint can put in a 200 body.
FullBody ==
    [access_token |-> "tok", refresh_token |-> "rt",
     instance_url |-> <<"https://", "inst", "/">>, id |-> "idurl"]

TokenBodies ==
    {FullBody,
     [FullBody EXCEPT !.instance_url = <<"/">>],
     [FullBody EXCEPT !.instance_url = <<>>],
     [FullBody EXCEPT !.access_token = ""],
     [FullBody EXCEPT !.id = ""]}

\* What the identity endpoint can put in a 200 body.
UserInfoBodies == {"full", "empty"}

\* How an outbound call can fail.
Failures == {"http", "network", "timeout"}

\* ------------------------------------------------------------------ session
EmptySession ==
    [code_verifier |-> 0, domain_type |-> "", custom_domain |-> <<>>,
     salesforce_domain |-> <<>>, access_token |-> "", refresh_token |-> "",
     instance_url |-> <<>>, authenticated |-> FALSE,
     username |-> "", email |-> "", userType |-> ""]

NoBody == [access_token |-> "", refresh_token |-> "", instance_url |-> <<>>, id |-> ""]

\* A request in flight: the handler's position (pc), req.sessionID (sid), whether
\* the session layer generated the session for this request (fresh), req.session
\* (session; live is FALSE once destroyed), the session layer's savedHash, and
\* the callback's locals: code, the token request it made (tokenUrl, <<>> while
\* none was made, and the code_verifier sent in it), the token response body,
\* and whether the session's record was gone from the store when the identity
\* fetch returned (gone).
Idle ==
    [kind |-> "idle", pc |-> "idle", sid |-> 0, fresh |-> FALSE,
     session |-> EmptySession, savedHash |-> EmptySession, live |-> FALSE,
     code |-> 0, sent |-> 0, tokenUrl |-> <<>>, body |-> NoBody, gone |-> FALSE]

\* A response: the request it answers (kind, sid, the callback's query and the
\* verifier its session held), how it was sent (redirect or json), where to
\* (redirect target or HTTP status), its query parameter and message, the PKCE
\* challenge of an authorization redirect, the token request made for it, the
\* position the handler answered from (at), the error it caught (cause),
\* whether a logout found no stored session (fresh), and whether the record a
\* callback had loaded was gone from the store when its token exchange or
\* identity fetch returned (lost).
NoResponse ==
    [kind |-> "none", sid |-> 0, how |-> "none", to |-> <<>>, status |-> 0,
     param |-> "", msg |-> "", challenge |-> <<>>, query |-> "", code |-> 0,
     had |-> 0, sent |-> 0, tokenUrl |-> <<>>, at |-> "", cause |-> "",
     fresh |-> FALSE, lost |-> FALSE]

Put(st, sid, s) == [x \in DOMAIN st \cup {sid} |-> IF x = sid THEN s ELSE st[x]]

Del(st, sid) == [x \in DOMAIN st \ {sid} |-> st[x]]

\* ------------------------------------------------------------------ session layer
\* express-session at the start of a request: the stored session of the cookie's
\* id, or a generated empty one; with resave: false savedHash starts as the
\* loaded session's hash.
\* A generated session id is one nothing refers to.
UsedSids == DOMAIN store \cup {cookie} \cup {reqs[i].sid : i \in DOMAIN reqs}

NewSid == CHOOSE n \in 1..(Cardinality(UsedSids) + 1) :
              n \notin UsedSids /\ \A m \in 1..(n - 1) : m \in UsedSids

LoadSession ==
    IF cookie \in DOMAIN store
    THEN [Idle EXCEPT !.sid = cookie, !.fresh = FALSE, !.session = store[cookie],
                      !.savedHash = store[cookie], !.live = TRUE]
    ELSE [Idle EXCEPT !.sid = NewSid, !.fresh = TRUE, !.live = TRUE]

\* A session layer that also stores generated sessions nobody modified
\* (saveUninitialized: true).
ShouldSaveUninitialized(r) == r.live /\ (r.fresh \/ r.session # r.savedHash)

\* express-session at the end of a response (saveUninitialized: false,
\* resave: false): a session that differs from what was loaded or last passed
\* to save() is written back.
ShouldSave(r) == r.live /\ r.session # r.savedHash

\* express-session when the headers are written (rolling: true): a generated
\* session gets its cookie once modified, a loaded one on every response.
ShouldSetCookie(r) == r.live /\ (r.fresh => r.session # EmptySession)

StoreAtEnd(r, endOk) ==
    IF ShouldSave(r) /\ endOk THEN Put(store, r.sid, r.session) ELSE store

CookieAtEnd(r) == IF ShouldSetCookie(r) THEN r.sid ELSE cookie

\* The requests in flight once request i has been answered.
Without(i) == SubSeq(reqs, 1, i - 1) \o SubSeq(reqs, i + 1, Len(reqs))

\* Request i at position pc of handler kind.
At(i, kinds, pc) == i \in DOMAIN reqs /\ reqs[i].kind \in kinds /\ reqs[i].pc = pc

\* ------------------------------------------------------------------ endpoints
AuthorizePath == <<"/services/oauth2/authorize">>
TokenPath == <<"/services/oauth2/token">>

\* Revision 1: the authorization URL of /login and the token URL of the callback.
AuthUrl1(domainType, customDomain) ==
    IF domainType = "sandbox" THEN SandboxDomain \o AuthorizePath
    ELSE IF domainType = "custom" /\ customDomain # <<>>
         THEN <<"https://">> \o customDomain \o AuthorizePath
         ELSE ProductionDomain \o AuthorizePath

TokenUrl1(sess) ==
    LET domainType == Or(sess.domain_type, "production")
    IN  IF domainType = "sandbox" THEN SandboxDomain \o TokenPath
        ELSE IF domainType = "custom" /\ sess.custom_domain # <<>>
             THEN <<"https://">> \o sess.custom_domain \o TokenPath
             ELSE ProductionDomain \o TokenPath

\* Revision 2: the Salesforce domain /login stores, and the callback's token URL.
SalesforceDomain2(domainType, customDomain) ==
    IF domainType = "custom" /\ customDomain # <<>> THEN StripTrailingSlash(customDomain)
    ELSE IF domainType = "sandbox" THEN SandboxDomain
         ELSE ProductionDomain

TokenUrl2(sess) ==
    (IF sess.salesforce_domain # <<>> THEN sess.salesforce_domain ELSE ProductionDomain)
        \o TokenPath

\* ------------------------------------------------------------------ identity provider
\* The provider, reached at the authorization URL to, binds the code it issues
\* for login attempt k to the challenge of the authorization request.
Authorize(k, challenge, replaced, to) ==
    [x \in DOMAIN authz \cup {k} |->
        IF x = k THEN [challenge |-> challenge, replaced |-> replaced, to |-> to]
        ELSE authz[x]]

\* RFC 7636 at the token endpoint: the code was issued and, when its
\* authorization request carried a challenge, the verifier hashes to it.  (The
\* session's verifier and domain are written by the same /login, so a matching
\* verifier comes with the host that issued the code.)
ProviderAccepts(code, verifier) ==
    /\ code \in DOMAIN authz
    /\ authz[code].challenge \in {<<>>, generateCodeChallenge(verifier)}

\* ------------------------------------------------------------------ GET /login
\* A /login that marks the session authenticated when it stores the verifier.
LoginSessionAuthenticating(sess, v, dom, customDomain) ==
    [sess EXCEPT !.code_verifier = v, !.domain_type = Or(dom, "production"),
                 !.custom_domain = customDomain,
                 !.salesforce_domain = SalesforceDomain2(Or(dom, "production"), customDomain),
                 !.authenticated = TRUE]

\* The fields /login writes to req.session.
LoginSession(sess, v, dom, customDomain) ==
    LET domainType == Or(dom, "production")
    IN  IF ver = 1
        THEN [sess EXCEPT !.code_verifier = v, !.domain_type = domainType,
                          !.custom_domain = customDomain]
        ELSE [sess EXCEPT !.salesforce_domain = SalesforceDomain2(domainType, customDomain),
                          !.domain_type = domainType, !.code_verifier = v]

\* A /login that always redirects to the production authorization endpoint.
LoginAuthUrlProduction(sess) == ProductionDomain \o AuthorizePath

\* The authorization URL /login redirects to.
LoginAuthUrl(sess) ==
    IF ver = 1 THEN AuthUrl1(sess.domain_type, sess.custom_domain)
    ELSE sess.salesforce_domain \o AuthorizePath

\* /login up to req.session.save(): the session is loaded, the verifier generated
\* and stored with the domain, and the save is issued.
LoginBegin(dom, customDomain) ==
    /\ nextLogin <= MaxLogins
    /\ LET r == LoadSession
           sess == LoginSession(r.session, nextLogin, dom, customDomain)
       IN  reqs' = Append(reqs, [r EXCEPT !.kind = "login", !.pc = "save",
                                          !.session = sess, !.savedHash = sess,
                                          !.sent = r.session.code_verifier])
    /\ nextLogin' = nextLogin + 1
    /\ resp' = NoResponse
    /\ UNCHANGED <<ver, store, cookie, authz>>

\* An authorization redirect that sends the verifier itself as a plain challenge.
LoginRedirectPlainChallenge(r) ==
    [NoResponse EXCEPT !.kind = "login", !.sid = r.sid, !.how = "redirect",
                       !.to = LoginAuthUrl(r.session),
                       !.challenge = <<"plain", r.session.code_verifier>>,
                       !.had = r.session.code_verifier]

\* An authorization redirect that leaves out the PKCE challenge.
LoginRedirectWithoutChallenge(r) ==
    [NoResponse EXCEPT !.kind = "login", !.sid = r.sid, !.how = "redirect",
                       !.to = LoginAuthUrl(r.session),
                       !.had = r.session.code_verifier]

\* An authorization redirect whose challenge was derived from the verifier the
\* session held before this login replaced it.
LoginRedirectStaleChallenge(r) ==
    [NoResponse EXCEPT !.kind = "login", !.sid = r.sid, !.how = "redirect",
                       !.to = LoginAuthUrl(r.session),
                       !.challenge = generateCodeChallenge(r.sent),
                       !.had = r.session.code_verifier]

\* The redirect to the authorization endpoint, carrying the S256 challenge of
\* the verifier just stored.
LoginRedirect(r) ==
    [NoResponse EXCEPT !.kind = "login", !.sid = r.sid, !.how = "redirect",
                       !.to = LoginAuthUrl(r.session),
                       !.challenge = generateCodeChallenge(r.session.code_verifier),
                       !.had = r.session.code_verifier]

LoginSaveError(r) ==
    IF ver = 1
    THEN [NoResponse EXCEPT !.kind = "login", !.sid = r.sid, !.how = "json",
                            !.status = 500, !.param = "error",
                            !.msg = "Failed to save session", !.cause = "save",
                            !.had = r.session.code_verifier]
    ELSE [NoResponse EXCEPT !.kind = "login", !.sid = r.sid, !.how = "redirect",
                            !.to = FrontendUrl, !.param = "error",
                            !.msg = "Session initialization failed", !.cause = "save",
                            !.had = r.session.code_verifier]

\* A redirect of /login to the provider's authorization endpoint.
ToProvider(response) ==
    response.kind = "login" /\ response.how = "redirect" /\ response.to # FrontendUrl

\* A /login that sends the browser to the provider whatever the save reported.
LoginResponseIgnoringSaveError(r, ok) == LoginRedirect(r)

\* The save callback of /login: the redirect to the provider, or the error.
LoginResponse(r, ok) == IF ok THEN LoginRedirect(r) ELSE LoginSaveError(r)

LoginSaved(i, ok) ==
    /\ At(i, {"login"}, "save")
    /\ LET r == reqs[i]
           response == LoginResponse(r, ok)
       IN  /\ store' = IF ok THEN Put(store, r.sid, r.session) ELSE store
           /\ resp' = response
           /\ authz' = IF ToProvider(response)
                        THEN Authorize(r.session.code_verifier, response.challenge, r.sent,
                                       response.to)
                        ELSE authz
           /\ cookie' = CookieAtEnd(r)
           /\ reqs' = Without(i)
    /\ UNCHANGED <<ver, nextLogin>>

\* ------------------------------------------------------------------ responses
\* The session layer's end-of-response work, and the slot freed.
Finish(rest, r, response, endOk) ==
    /\ store' = StoreAtEnd(r, endOk)
    /\ cookie' = CookieAtEnd(r)
    /\ reqs' = rest
    /\ resp' = response

\* Every callback outcome is a redirect to the front end.
CallbackRedirect(r, query, param, msg) ==
    [NoResponse EXCEPT !.kind = "callback", !.sid = r.sid, !.how = "redirect",
                       !.to = FrontendUrl, !.param = param, !.msg = msg,
                       !.query = query, !.code = r.code,
                       !.had = IF r.tokenUrl # <<>> THEN r.sent
                                                    ELSE r.session.code_verifier,
                       !.sent = r.sent, !.tokenUrl = r.tokenUrl, !.at = r.pc,
                       !.lost = IF r.pc = "save" THEN r.gone
                                ELSE ~r.fresh /\ r.sid \notin DOMAIN store]

NoCodeMessage == IF ver = 1 THEN "no_code" ELSE "No authorization code received"

SessionExpiredMessage ==
    IF ver = 1 THEN "session_expired"
    ELSE "Session expired. Please try logging in again."

MissingTokenMessage == "Token response missing access_token or instance_url"

SaveFailedMessage == IF ver = 1 THEN "session_save_failed" ELSE "Failed to save session"

\* err.message of a failed outbound call; an "http" failure carries the
\* provider's error_description in its response body.
FailureMessage(f) ==
    CASE f = "http" -> "invalid_grant: authentication failure"
      [] f = "network" -> "Network Error"
      [] f = "timeout" -> "timeout exceeded"
      [] OTHER -> f

\* The message the callback's catch block reports for a thrown error.
CatchMessage(f) ==
    IF f = "http" THEN FailureMessage(f)
    ELSE IF ver = 1 THEN "Authentication failed" ELSE FailureMessage(f)

\* ------------------------------------------------------------------ GET /oauth/callback
\* A callback that does not look at the code parameter.
HasCodeUnchecked(code) == TRUE

\* The callback's guard on the code parameter.
HasCode(code) == code # 0

\* A callback that does not look at the pending verifier.
HasVerifierUnchecked(sess) == TRUE

\* The callback's guard on the pending verifier.
HasVerifier(sess) == sess.code_verifier # 0

\* A callback that always posts to the production token endpoint.
CallbackTokenUrlProduction(sess) == ProductionDomain \o TokenPath

\* The token endpoint the callback posts to.
CallbackTokenUrl(sess) == IF ver = 1 THEN TokenUrl1(sess) ELSE TokenUrl2(sess)

\* The callback up to the token request: the provider's error, the missing code
\* and the missing verifier each end it with a redirect; otherwise the code and
\* the session's verifier are posted to the token endpoint.
CallbackBegin(code, error, error_description) ==
    /\ LET r == [LoadSession EXCEPT !.kind = "callback", !.code = code]
       IN  IF error # ""
           THEN Finish(reqs, r, CallbackRedirect(r, "error", "error",
                                                 Or(error_description, error)), TRUE)
           ELSE IF ~HasCode(code)
           THEN Finish(reqs, r, CallbackRedirect(r, "none", "error", NoCodeMessage), TRUE)
           ELSE IF ~HasVerifier(r.session)
           THEN Finish(reqs, r, CallbackRedirect(r, "code", "error",
                                                 SessionExpiredMessage), TRUE)
           ELSE /\ reqs' = Append(reqs, [r EXCEPT !.pc = "exchange",
                                                  !.sent = r.session.code_verifier,
                                                  !.tokenUrl = CallbackTokenUrl(r.session)])
                /\ resp' = NoResponse
                /\ UNCHANGED <<store, cookie>>
    /\ UNCHANGED <<ver, nextLogin, authz>>

\* The catch block: an error redirect; the handler restores nothing.
CallbackCatch(i, r, f) ==
    \E endOk \in BOOLEAN :
        /\ (~ShouldSave(r) => endOk)
        /\ Finish(Without(i), r, [CallbackRedirect(r, "code", "error", CatchMessage(f))
                            EXCEPT !.cause = f], endOk)

\* The token request fails: error response, network error or timeout.
TokenFails(i, f) ==
    /\ At(i, {"callback"}, "exchange")
    /\ CallbackCatch(i, reqs[i], f)
    /\ UNCHANGED <<ver, nextLogin, authz>>

\* Revision 2 checks the token response before going on.
TokenBodyUsable(b) == ver = 2 => (b.access_token # "" /\ b.instance_url # <<>>)

\* A callback that writes the tokens to the session as soon as it has them.
AfterTokenWritingSession(r, b) ==
    [r EXCEPT !.pc = "identity", !.body = b,
              !.session = [r.session EXCEPT !.access_token = b.access_token,
                                            !.refresh_token = b.refresh_token,
                                            !.instance_url = b.instance_url]]

\* The handler between the token response and the identity request: only
\* locals are set.
AfterToken(r, b) == [r EXCEPT !.pc = "identity", !.body = b]

\* The token request succeeds with body b.  Revision 2 throws on a body without
\* access_token or instance_url; revision 1 passes b.id to axios.get, which
\* rejects a missing URL.
TokenSucceeds(i, b) ==
    /\ At(i, {"callback"}, "exchange")
    /\ ProviderAccepts(reqs[i].code, reqs[i].sent)
    /\ IF ~TokenBodyUsable(b)
       THEN CallbackCatch(i, reqs[i], MissingTokenMessage)
       ELSE IF ver = 1 /\ b.id = ""
       THEN CallbackCatch(i, reqs[i], "Invalid URL")
       ELSE /\ reqs' = [reqs EXCEPT ![i] = AfterToken(reqs[i], b)]
            /\ resp' = NoResponse
            /\ UNCHANGED <<store, cookie>>
    /\ UNCHANGED <<ver, nextLogin, authz>>

\* The identity request fails.
IdentityFails(i, f) ==
    /\ At(i, {"callback"}, "identity")
    /\ CallbackCatch(i, reqs[i], f)
    /\ UNCHANGED <<ver, nextLogin, authz>>

\* The identity endpoint's body as the handler reads it.
UserInfo(u) ==
    IF u = "full"
    THEN [username |-> "alice", email |-> "alice@example.com", userType |-> "Admin"]
    ELSE [username |-> "", email |-> "", userType |-> ""]

\* A successful callback that leaves the PKCE verifier in the session.
AuthenticatedSessionKeepingVerifier(sess, b, u) ==
    [sess EXCEPT !.access_token = b.access_token, !.refresh_token = b.refresh_token,
                 !.instance_url = b.instance_url, !.authenticated = TRUE,
                 !.username = UserInfo(u).username, !.email = UserInfo(u).email,
                 !.userType = UserInfo(u).userType]

\* The session a successful callback builds before saving it.
AuthenticatedSession(sess, b, u) ==
    IF ver = 1
    THEN [sess EXCEPT
             !.access_token = b.access_token, !.refresh_token = b.refresh_token,
             !.instance_url = b.instance_url, !.authenticated = TRUE,
             !.username = Or(UserInfo(u).username, "User"),
             !.email = Or(UserInfo(u).email, ""),
             !.userType = Or(UserInfo(u).userType, "Standard"),
             !.domain_type = Or(sess.domain_type, "production"),
             !.code_verifier = 0, !.custom_domain = <<>>]
    ELSE [sess EXCEPT
             !.access_token = b.access_token,
             !.instance_url = StripTrailingSlash(b.instance_url),
             !.salesforce_domain = IF sess.salesforce_domain # <<>>
                                   THEN sess.salesforce_domain ELSE ProductionDomain,
             !.username = UserInfo(u).username, !.email = UserInfo(u).email,
             !.userType = UserInfo(u).userType,
             !.authenticated = TRUE, !.code_verifier = 0]

\* The identity request succeeds with body u: the session is populated and the
\* save issued.
IdentitySucceeds(i, u) ==
    /\ At(i, {"callback"}, "identity")
    /\ LET r == reqs[i]
           sess == AuthenticatedSession(r.session, r.body, u)
       IN  reqs' = [reqs EXCEPT ![i] = [r EXCEPT !.pc = "save", !.session = sess,
                                                 !.savedHash = sess,
                                                 !.gone = r.sid \notin DOMAIN store]]
    /\ resp' = NoResponse
    /\ UNCHANGED <<ver, store, cookie, nextLogin, authz>>

CallbackSuccess(r) ==
    IF ver = 1 THEN CallbackRedirect(r, "code", "login", "success")
    ELSE CallbackRedirect(r, "code", "success", "1")

\* A callback that signals success whatever the save reported.
CallbackSaveResponseIgnoringError(r, ok) == CallbackSuccess(r)

\* What the callback's save callback answers.
CallbackSaveResponse(r, ok) ==
    IF ok THEN CallbackSuccess(r)
    ELSE [CallbackRedirect(r, "code", "error", SaveFailedMessage) EXCEPT !.cause = "save"]

\* A save that writes only over a record the store still holds.
CallbackSavedIfPresent(i, ok) ==
    /\ At(i, {"callback"}, "save")
    /\ LET r == reqs[i]
       IN  /\ store' = IF ok /\ r.sid \in DOMAIN store
                        THEN Put(store, r.sid, r.session) ELSE store
           /\ resp' = CallbackSaveResponse(r, ok)
           /\ cookie' = CookieAtEnd(r)
           /\ reqs' = Without(i)
    /\ UNCHANGED <<ver, nextLogin, authz>>

\* The save callback of the callback handler.
CallbackSaved(i, ok) ==
    /\ At(i, {"callback"}, "save")
    /\ LET r == reqs[i]
       IN  /\ store' = IF ok THEN Put(store, r.sid, r.session) ELSE store
           /\ resp' = CallbackSaveResponse(r, ok)
           /\ cookie' = CookieAtEnd(r)
           /\ reqs' = Without(i)
    /\ UNCHANGED <<ver, nextLogin, authz>>

\* ------------------------------------------------------------------ logout
\* POST /logout and GET /logout up to req.session.destroy().
LogoutBegin(method) ==
    /\ reqs' = Append(reqs, [LoadSession EXCEPT !.kind = method, !.pc = "destroy",
                                                !.live = FALSE])
    /\ resp' = NoResponse
    /\ UNCHANGED <<ver, store, cookie, nextLogin, authz>>

\* A logout that refuses a caller without a stored session.
LogoutResponseRequiringSession(r, ok) ==
    LET base == [NoResponse EXCEPT !.kind = r.kind, !.sid = r.sid, !.fresh = r.fresh,
                                   !.had = r.session.code_verifier]
    IN  IF r.fresh \/ ~ok
        THEN [base EXCEPT !.how = "json", !.status = 401, !.param = "error",
                          !.msg = "Not logged in", !.cause = IF ok THEN "" ELSE "destroy"]
        ELSE IF r.kind = "logout_post"
             THEN [base EXCEPT !.how = "json", !.status = 200, !.param = "success",
                               !.msg = "Logged out successfully"]
             ELSE [base EXCEPT !.how = "redirect", !.to = FrontendUrl]

\* What the destroy callback answers.
LogoutResponse(r, ok) ==
    LET base == [NoResponse EXCEPT !.kind = r.kind, !.sid = r.sid, !.fresh = r.fresh,
                                   !.had = r.session.code_verifier]
    IN  IF r.kind = "logout_post"
        THEN IF ok THEN [base EXCEPT !.how = "json", !.status = 200, !.param = "success",
                                     !.msg = "Logged out successfully"]
                   ELSE [base EXCEPT !.how = "json", !.status = 500, !.param = "error",
                                     !.msg = "Failed to logout", !.cause = "destroy"]
        ELSE IF ver = 1
             THEN [base EXCEPT !.how = "redirect", !.to = FrontendUrl, !.param = "logout",
                               !.msg = "success", !.cause = IF ok THEN "" ELSE "destroy"]
             ELSE IF ok THEN [base EXCEPT !.how = "redirect", !.to = FrontendUrl]
                        ELSE [base EXCEPT !.how = "redirect", !.to = FrontendUrl,
                                          !.param = "error", !.msg = "Logout failed",
                                          !.cause = "destroy"]

\* A logout that resets the authenticated flag and keeps the record.
ClearFlagsOnly(sid) ==
    IF sid \in DOMAIN store
    THEN Put(store, sid, [store[sid] EXCEPT !.authenticated = FALSE])
    ELSE store

\* req.session.destroy(): the store drops the record of the session id.
DestroySession(sid) == Del(store, sid)

\* The destroy callback: revision 2 clears the cookie when the destroy succeeded.
LogoutDone(i, ok) ==
    /\ At(i, {"logout_post", "logout_get"}, "destroy")
    /\ LET r == reqs[i]
       IN  /\ store' = IF ok THEN DestroySession(r.sid) ELSE store
           /\ cookie' = IF ok /\ ver = 2 THEN 0 ELSE cookie
           /\ resp' = LogoutResponse(r, ok)
           /\ reqs' = Without(i)
    /\ UNCHANGED <<ver, nextLogin, authz>>

\* ------------------------------------------------------------------ /api proxy
\* The proxy endpoints mounted under /api.
ApiEndpoints == {"validation-rules", "validation-toggle"}

\* How the upstream Salesforce API can answer a proxied call.
UpstreamOutcomes == {"ok", "unauthorized", "error"}

\* A guard that trusts the authenticated flag alone.
SessionGuardFlagOnly(sess) == sess.authenticated

\* The session guard in front of the proxy: authenticated and an access token.
SessionGuard(sess) == sess.authenticated /\ sess.access_token # ""

ApiRejected(r) ==
    [NoResponse EXCEPT !.kind = "api", !.sid = r.sid, !.fresh = r.fresh, !.how = "json",
                       !.status = 401, !.param = "error", !.msg = "Not authenticated",
                       !.at = r.pc]

ApiAnswer(r, outcome) ==
    LET base == [NoResponse EXCEPT !.kind = "api", !.sid = r.sid, !.fresh = r.fresh,
                                   !.how = "json", !.at = r.pc]
    IN  CASE outcome = "ok" -> [base EXCEPT !.status = 200, !.param = "success"]
          [] outcome = "unauthorized" ->
                [base EXCEPT !.status = 401, !.param = "error",
                             !.msg = "Reauthentication required", !.cause = "upstream"]
          [] OTHER -> [base EXCEPT !.status = 502, !.param = "error",
                                   !.msg = "Upstream error", !.cause = "upstream"]

\* A request to a proxy endpoint up to the upstream call: the guard rejects it,
\* or the call is made with the session's access token and instance_url.
ApiBegin(endpoint) ==
    /\ LET r == [LoadSession EXCEPT !.kind = "api"]
       IN  IF ~SessionGuard(r.session)
           THEN Finish(reqs, r, ApiRejected(r), TRUE)
           ELSE /\ reqs' = Append(reqs, [r EXCEPT !.pc = "upstream"])
                /\ resp' = NoResponse
                /\ UNCHANGED <<store, cookie>>
    /\ UNCHANGED <<ver, nextLogin, authz>>

\* The upstream call returns and the proxy answers.
ApiDone(i, outcome) ==
    /\ At(i, {"api"}, "upstream")
    /\ Finish(Without(i), reqs[i], ApiAnswer(reqs[i], outcome), TRUE)
    /\ UNCHANGED <<ver, nextLogin, authz>>

\* ------------------------------------------------------------------ expiry
\* The store drops a session whose TTL ran out.
Expire(sid) ==
    /\ sid \in DOMAIN store
    /\ store' = Del(store, sid)
    /\ resp' = NoResponse
    /\ UNCHANGED <<ver, cookie, reqs, nextLogin, authz>>

\* ------------------------------------------------------------------ server.js
\* reconnectStrategy: the numbers of the retry policy.
RetryLimit == 10
DelayStep == 100
MaxDelay == 3000

Min(a, b) == IF a < b THEN a ELSE b

\* A reconnect policy whose limit test is off by one.
ReconnectStrategyOffByOne(retries) ==
    IF retries > RetryLimit + 1 THEN [error |-> TRUE, delay |-> 0]
    ELSE [error |-> FALSE, delay |-> Min(retries * DelayStep, MaxDelay)]

\* reconnectStrategy(retries): an Error above the limit, else the delay in ms.
ReconnectStrategy(retries) ==
    IF retries > RetryLimit THEN [error |-> TRUE, delay |-> 0]
    ELSE [error |-> FALSE, delay |-> Min(retries * DelayStep, MaxDelay)]

\* The warnings the server logs.
NoRedisUrlWarning == "No REDIS_URL provided, using memory store"
FallbackWarning == "Falling back to memory store (sessions will not persist)"
MemoryStoreWarning == "Using in-memory session store (development only)"
CorsWarning == "Blocked CORS request from origin"

\* A start-up that falls back to the memory store without a word.
FallbackLogSilent(log) == log

\* The catch block of initializeRedis: the error and the fallback warning.
FallbackLog(log) == log \cup {FallbackWarning}

\* Origins a request can come with ("" is a request without an Origin header).
FrontendOrigin == "https://frontend"
VercelApp == "https://salesforce-validation-bridge.vercel.app"
VercelPreview == "https://salesforce-validation-bridge-git-fix.vercel.app"
Origins == {"", FrontendOrigin, VercelApp, VercelPreview, "http://localhost:5174",
            "https://evil.example"}

\* origin.match(/^https:\/\/salesforce-validation-bridge.*\.vercel\.app$/)
IsVercelPreview(origin) == origin \in {VercelApp, VercelPreview}

\* The origins each server version lists as allowed.
AllowedOrigins(server) ==
    IF server = "current"
    THEN {FrontendOrigin, VercelApp, "http://localhost:5173", "http://localhost:3000"}
    ELSE {FrontendOrigin, VercelApp, "http://localhost:5173", "http://localhost:3000",
          "http://localhost:5174"}

\* The origin is listed (or, in the second version, a Vercel preview).
OriginListed(server, origin) ==
    \/ origin \in AllowedOrigins(server)
    \/ server = "second" /\ IsVercelPreview(origin)

\* corsOptions.origin: what it passes to the callback, and whether it warns.
CorsOrigin(server, origin) ==
    IF origin = "" \/ OriginListed(server, origin)
    THEN [allow |-> TRUE, warn |-> FALSE]
    ELSE [allow |-> TRUE, warn |-> TRUE]

\* The paths requested, and those the router of routes/index.js serves.
RoutePaths == {"/login", "/oauth/callback", "/logout", "/api/validation-rules"}
Paths == RoutePaths \cup {"/health", "/", "/nowhere"}

\* The middleware and routes registered while the module loads, in order.
LoadedStack ==
    <<"helmet", "compression", "morgan", "cors", "json", "urlencoded", "limiter",
      "health", "root", "routes", "notFoundHandler", "errorHandler">>

\* Whether a layer of the stack ends the request (the others call next()).
Answers(layer, path) ==
    CASE layer = "health" -> path = "/health"
      [] layer = "root" -> path = "/"
      [] layer = "routes" -> path \in RoutePaths
      [] layer = "notFoundHandler" -> TRUE
      [] OTHER -> FALSE

\* The position in the stack of the layer that answers a request for path
\* (0 when none does).
AnsweredAt(stack, path) ==
    IF \E k \in DOMAIN stack : Answers(stack[k], path)
    THEN CHOOSE k \in DOMAIN stack :
             Answers(stack[k], path) /\ \A j \in 1..(k - 1) : ~Answers(stack[j], path)
    ELSE 0

\* Whether the request passed through layer before it was answered.
PassedThrough(stack, path, layer) ==
    \E j \in 1..(AnsweredAt(stack, path) - 1) : stack[j] = layer

NoRequest == [path |-> "", origin |-> "", by |-> "none", session |-> FALSE, cors |-> "none"]

\* The server before it runs.
ServerOff ==
    [server |-> "none", redisUrl |-> FALSE, phase |-> "off", stack |-> <<>>,
     sessionStore |-> "none", redis |-> "none", retries |-> 0, delay |-> 0,
     log |-> {}, last |-> NoRequest]

\* The module has loaded (lines 23-233) and startServer() is in initializeRedis.
ServerLoaded(server, redisUrl) ==
    [ServerOff EXCEPT !.server = server, !.redisUrl = redisUrl, !.phase = "redis",
                      !.stack = LoadedStack]

\* initializeRedis without config.redisUrl: the warning, and no store.
NoRedisConfigured ==
    /\ srv.phase = "redis" /\ ~srv.redisUrl
    /\ srv' = [srv EXCEPT !.phase = "session", !.log = @ \cup {NoRedisUrlWarning}]
    /\ UNCHANGED flow

\* A connection attempt of the Redis client fails: the client asks
\* reconnectStrategy with the number of retries made so far; on a delay it
\* tries again, on an Error it gives up, and a connect() awaited at start-up
\* rejects into the catch block of initializeRedis.
ConnectFails ==
    /\ \/ srv.phase = "redis" /\ srv.redisUrl
       \/ srv.redis = "reconnecting"
    /\ LET s == ReconnectStrategy(srv.retries)
       IN  IF ~s.error
           THEN srv' = [srv EXCEPT !.redis = IF srv.phase = "redis" THEN "connecting"
                                              ELSE "reconnecting",
                                   !.retries = @ + 1, !.delay = s.delay]
           ELSE IF srv.phase = "redis"
           THEN srv' = [srv EXCEPT !.redis = "closed", !.phase = "session",
                                   !.log = FallbackLog(@)]
           ELSE srv' = [srv EXCEPT !.redis = "closed"]
    /\ UNCHANGED flow

\* A connection attempt succeeds: at start-up the RedisStore is created.
ConnectSucceeds ==
    /\ \/ srv.phase = "redis" /\ srv.redisUrl
       \/ srv.redis = "reconnecting"
    /\ srv' = [srv EXCEPT !.redis = "ready", !.retries = 0, !.delay = 0,
                           !.sessionStore = IF srv.phase = "redis" THEN "redis" ELSE @,
                           !.phase = IF srv.phase = "redis" THEN "session" ELSE @]
    /\ UNCHANGED flow

\* The connection of a ready client drops and the client starts reconnecting.
ConnectionLost ==
    /\ srv.redis = "ready"
    /\ srv' = [srv EXCEPT !.redis = "reconnecting", !.retries = 0, !.delay = 0]
    /\ UNCHANGED flow

\* initializeSession: the store chosen, the warning of the memory store, and
\* the session middleware added to the stack.
InitializeSession ==
    /\ srv.phase = "session"
    /\ srv' = [srv EXCEPT
                  !.phase = "listen",
                  !.sessionStore = IF @ = "redis" THEN "redis" ELSE "memory",
                  !.log = IF srv.sessionStore = "redis" THEN @
                                                        ELSE @ \cup {MemoryStoreWarning},
                  !.stack = Append(@, "session")]
    /\ UNCHANGED flow

\* app.listen.
Listen ==
    /\ srv.phase = "listen"
    /\ srv' = [srv EXCEPT !.phase = "listening"]
    /\ UNCHANGED flow

\* A request goes down the stack to the layer that answers it.
Serve(path, origin) ==
    /\ srv.phase = "listening"
    /\ LET k == AnsweredAt(srv.stack, path)
           c == CorsOrigin(srv.server, origin)
           cors == PassedThrough(srv.stack, path, "cors")
       IN  srv' = [srv EXCEPT
                      !.last = [path |-> path, origin |-> origin,
                                by |-> IF k = 0 THEN "none" ELSE srv.stack[k],
                                session |-> PassedThrough(srv.stack, path, "session"),
                                cors |-> IF ~cors THEN "none"
                                         ELSE IF c.allow THEN "allowed" ELSE "denied"],
                      !.log = IF cors /\ c.warn THEN @ \cup {CorsWarning} ELSE @]
    /\ UNCHANGED flow

\* ------------------------------------------------------------------ specification
Init ==
    /\ ver \in {1, 2}
    /\ store = <<>>
    /\ cookie = 0
    /\ reqs = <<>>
    /\ nextLogin = 1
    /\ authz = <<>>
    /\ resp = NoResponse
    /\ srv = ServerOff

\* One browser driving the flow: it sends a request once the previous one was
\* answered; a handler's pending I/O completes either way; sessions expire at
\* any time.
Next ==
    \/ \E q \in LoginQueries : reqs = <<>> /\ LoginBegin(q.domain, q.customDomain) /\ UNCHANGED srv
    \/ \E i \in DOMAIN reqs, ok \in BOOLEAN : LoginSaved(i, ok) /\ UNCHANGED srv
    \/ \E code \in Codes, e \in ErrorParams, d \in ErrorDescriptions :
          reqs = <<>> /\ CallbackBegin(code, e, d) /\ UNCHANGED srv
    \/ \E i \in DOMAIN reqs, f \in Failures : TokenFails(i, f) /\ UNCHANGED srv
    \/ \E i \in DOMAIN reqs, b \in TokenBodies : TokenSucceeds(i, b) /\ UNCHANGED srv
    \/ \E i \in DOMAIN reqs, f \in Failures : IdentityFails(i, f) /\ UNCHANGED srv
    \/ \E i \in DOMAIN reqs, u \in UserInfoBodies : IdentitySucceeds(i, u) /\ UNCHANGED srv
    \/ \E i \in DOMAIN reqs, ok \in BOOLEAN : CallbackSaved(i, ok) /\ UNCHANGED srv
    \/ \E m \in {"logout_post", "logout_get"} : reqs = <<>> /\ LogoutBegin(m) /\ UNCHANGED srv
    \/ \E i \in DOMAIN reqs, ok \in BOOLEAN : LogoutDone(i, ok) /\ UNCHANGED srv
    \/ \E endpoint \in ApiEndpoints : reqs = <<>> /\ ApiBegin(endpoint) /\ UNCHANGED srv
    \/ \E i \in DOMAIN reqs, outcome \in UpstreamOutcomes : ApiDone(i, outcome) /\ UNCHANGED srv
    \/ \E sid \in DOMAIN store : Expire(sid) /\ UNCHANGED srv

Spec == Init /\ [][Next]_vars

\* The server process from the end of the module load on: startServer() runs
\* initializeRedis, initializeSession and app.listen, then requests arrive and
\* the Redis connection may drop.
ServerInit ==
    /\ ver \in {1, 2}
    /\ store = <<>>
    /\ cookie = 0
    /\ reqs = <<>>
    /\ nextLogin = 1
    /\ authz = <<>>
    /\ resp = NoResponse
    /\ srv \in {ServerLoaded(server, redisUrl) :
                   server \in {"second", "current"}, redisUrl \in BOOLEAN}

ServerNext ==
    \/ NoRedisConfigured
    \/ ConnectFails
    \/ ConnectSucceeds
    \/ ConnectionLost
    \/ InitializeSession
    \/ Listen
    \/ \E path \in Paths, origin \in Origins : Serve(path, origin)

ServerSpec == ServerInit /\ [][ServerNext]_vars

\* No request of these kinds is in flight.
NoneInFlight(kinds) == \A i \in DOMAIN reqs : reqs[i].kind \notin kinds

\* Two tabs of one browser: a logout may arrive while a callback is suspended
\* on the token exchange, the identity fetch or its save, and a callback while
\* a logout waits for its destroy.
TabsNext ==
    \/ reqs = <<>> /\ LoginBegin("", <<>>) /\ UNCHANGED srv
    \/ \E i \in DOMAIN reqs, ok \in BOOLEAN : LoginSaved(i, ok) /\ UNCHANGED srv
    \/ \E code \in Codes \ {0} :
          NoneInFlight({"callback", "login"}) /\ CallbackBegin(code, "", "") /\ UNCHANGED srv
    \/ \E i \in DOMAIN reqs : TokenFails(i, "http") /\ UNCHANGED srv
    \/ \E i \in DOMAIN reqs : TokenSucceeds(i, FullBody) /\ UNCHANGED srv
    \/ \E i \in DOMAIN reqs : IdentityFails(i, "timeout") /\ UNCHANGED srv
    \/ \E i \in DOMAIN reqs : IdentitySucceeds(i, "full") /\ UNCHANGED srv
    \/ \E i \in DOMAIN reqs, ok \in BOOLEAN : CallbackSaved(i, ok) /\ UNCHANGED srv
    \/ \E m \in {"logout_post", "logout_get"} :
          NoneInFlight({"logout_post", "logout_get", "login"}) /\ LogoutBegin(m)
              /\ UNCHANGED srv
    \/ \E i \in DOMAIN reqs, ok \in BOOLEAN : LogoutDone(i, ok) /\ UNCHANGED srv

TabsSpec == Init /\ [][TabsNext]_vars

\* The login and its callback over every kind of domain value, one request
\* at a time.
DomainsNext ==
    \/ \E q \in LoginQueries \cup DefaultedLoginQueries :
          reqs = <<>> /\ LoginBegin(q.domain, q.customDomain) /\ UNCHANGED srv
    \/ \E i \in DOMAIN reqs, ok \in BOOLEAN : LoginSaved(i, ok) /\ UNCHANGED srv
    \/ \E code \in Codes \ {0} : reqs = <<>> /\ CallbackBegin(code, "", "") /\ UNCHANGED srv
    \/ \E i \in DOMAIN reqs : TokenFails(i, "http") /\ UNCHANGED srv
    \/ \E i \in DOMAIN reqs : TokenSucceeds(i, FullBody) /\ UNCHANGED srv
    \/ \E i \in DOMAIN reqs : IdentitySucceeds(i, "full") /\ UNCHANGED srv
    \/ \E i \in DOMAIN reqs : CallbackSaved(i, TRUE) /\ UNCHANGED srv

DomainsSpec == Init /\ [][DomainsNext]_vars

\* ------------------------------------------------------------------ session states
\* The states of the session lifecycle, read off a session record.
AwaitingCallback(sess) == sess.code_verifier # 0

Authenticated(sess) == sess.authenticated

Anonymous(sess) == ~AwaitingCallback(sess) /\ ~Authenticated(sess)

\* The stored session of id sid, a session nobody stored being empty.
Stored(sid) == IF sid \in DOMAIN store THEN store[sid] ELSE EmptySession

\* Every session record the server holds: stored ones and those of requests in flight.
Sessions ==
    {store[sid] : sid \in DOMAIN store}
        \cup {reqs[i].session : i \in {j \in DOMAIN reqs : reqs[j].live}}

\* A response to a callback that came with a code.
CodeCallback == resp.kind = "callback" /\ resp.query = "code"

\* A response to a callback whose token exchange or identity fetch failed.
FailedFetch == resp.kind = "callback" /\ resp.cause \in Failures

\* ------------------------------------------------------------------ C1
\* C1: no stored session state holds a code_verifier and an access_token at
\* the same time.
C1_VerifierExcludesToken ==
    \A sid \in DOMAIN store :
        ~(store[sid].code_verifier # 0 /\ store[sid].access_token # "")

\* ------------------------------------------------------------------ C2
\* C2: in every session state with authenticated = true, access_token and
\* instance_url are present and non-empty, whatever the token endpoint returned.
C2_AuthenticatedHasTokens ==
    \A sid \in DOMAIN store :
        store[sid].authenticated =>
            (store[sid].access_token # "" /\ store[sid].instance_url # <<>>)

\* ------------------------------------------------------------------ C3
\* C3: a callback that carries a code while its session holds no pending
\* verifier is answered with the session-expired error, and no token request
\* is made for it: every token request in flight carries a verifier.
C3_NoVerifierNoExchange ==
    /\ (CodeCallback /\ resp.had = 0) =>
           (resp.param = "error" /\ resp.msg = SessionExpiredMessage /\ resp.tokenUrl = <<>>)
    /\ \A i \in DOMAIN reqs :
           (reqs[i].kind = "callback" /\ reqs[i].tokenUrl # <<>>) => reqs[i].sent # 0

\* A callback with a code issued by the provider reached a session that had
\* expired, and was answered with the session-expired error.
C3_Witness ==
    /\ CodeCallback /\ resp.had = 0 /\ resp.code \in DOMAIN authz
    /\ resp.msg = SessionExpiredMessage /\ resp.tokenUrl = <<>>

\* ------------------------------------------------------------------ C4
\* C4: a callback whose code was not issued for the verifier its session holds
\* (the code of a first login, after a second login overwrote the verifier)
\* never gets past the token exchange: it is answered with an error, and only
\* a callback whose code matches the verifier it sent goes on to the identity
\* fetch and the save that make the session Authenticated.
C4_StaleCodeNeverAuthenticates ==
    /\ (CodeCallback /\ resp.had # 0 /\ resp.code # resp.had) => resp.param = "error"
    /\ \A i \in DOMAIN reqs :
           (reqs[i].kind = "callback" /\ reqs[i].pc \in {"identity", "save"}) =>
               reqs[i].code = reqs[i].sent

\* The first login's code came back after the second login, on the same
\* session, had replaced verifier 1 by verifier 2; the exchange was attempted
\* and the session is not authenticated.
C4_Witness ==
    /\ CodeCallback /\ resp.code = 1 /\ resp.had = 2 /\ resp.tokenUrl # <<>>
    /\ 2 \in DOMAIN authz /\ authz[2].replaced = 1
    /\ ~Stored(resp.sid).authenticated

\* ------------------------------------------------------------------ C5
\* C5: a callback whose code belongs to a login that a later login on the same
\* session superseded is rejected with the session-expired error and is not
\* forwarded to the token endpoint with the newer verifier.
C5_StaleCallbackRejectedUnsent ==
    (/\ CodeCallback /\ resp.had # 0
     /\ resp.had \in DOMAIN authz /\ authz[resp.had].replaced = resp.code) =>
        (resp.msg = SessionExpiredMessage /\ resp.tokenUrl = <<>>)

\* ------------------------------------------------------------------ C6
\* The custom domains the design accepts: a host under the provider's suffix.
ValidCustomDomain(d) == Len(d) > 0 /\ d[Len(d)] = ".salesforce.com"

\* The custom domain a session recorded at /login.
RecordedCustomDomain(sess) ==
    IF sess.domain_type # "custom" THEN <<>>
    ELSE IF ver = 1 THEN sess.custom_domain ELSE sess.salesforce_domain

\* C6: /login with domain=custom and customDomain=evil.com is rejected with a
\* validation error: no redirect is sent to that host's authorization
\* endpoint and no session stores a verifier for it.
C6_InvalidCustomDomainRejected ==
    /\ \A sid \in DOMAIN store :
           (store[sid].code_verifier # 0 /\ RecordedCustomDomain(store[sid]) # <<>>) =>
               ValidCustomDomain(RecordedCustomDomain(store[sid]))
    /\ ToProvider(resp) => ValidCustomDomain(SubSeq(resp.to, 1, Len(resp.to) - 1))

\* ------------------------------------------------------------------ C7
\* C7 as stated: /login redirects to the provider only once the session save
\* completed; after a failed save the caller gets an explicit error, no
\* redirect to the provider, and the stored session is not in AwaitingCallback.
C7_FailedSaveLeavesNoPendingLogin ==
    /\ ToProvider(resp) =>
           (resp.sid \in DOMAIN store /\ store[resp.sid].code_verifier = resp.had)
    /\ (resp.kind = "login" /\ resp.cause = "save") =>
           (resp.param = "error" /\ ~ToProvider(resp)
            /\ ~AwaitingCallback(Stored(resp.sid)))

\* C7 amended: /login redirects to the provider only once the session save
\* completed, the store then holding the login's verifier; after a failed
\* save the caller gets an explicit error, no redirect to the provider, and
\* the store does not hold the verifier of that login (a verifier an earlier
\* login stored stays pending).
C7_FailedSaveStoresNothing ==
    /\ ToProvider(resp) =>
           (resp.sid \in DOMAIN store /\ store[resp.sid].code_verifier = resp.had)
    /\ (resp.kind = "login" /\ resp.cause = "save") =>
           (resp.param = "error" /\ ~ToProvider(resp)
            /\ Stored(resp.sid).code_verifier # resp.had)

\* A /login whose save failed was answered with the error while the stored
\* session still awaited the callback of an earlier login.
C7_Witness ==
    /\ resp.kind = "login" /\ resp.cause = "save" /\ resp.param = "error"
    /\ AwaitingCallback(Stored(resp.sid))

\* ------------------------------------------------------------------ C8
\* C8: after a callback that carries the provider's error parameter the
\* session is Anonymous (no pending verifier, not authenticated), and the
\* provider's message is what the caller is told.
C8_ProviderErrorResetsSession ==
    (resp.kind = "callback" /\ resp.query = "error") =>
        /\ Anonymous(Stored(resp.sid))
        /\ resp.param = "error" /\ resp.msg \in {"access_denied", "user denied"}

\* ------------------------------------------------------------------ C9
\* C9: a step that answers a callback whose token exchange or identity fetch
\* failed (error response, network error, timeout) writes nothing to the
\* session store: none of access_token, refresh_token, instance_url, username,
\* email, userType, authenticated changes.
C9_FailedFetchWritesNothing ==
    [][((resp.kind = "callback" /\ resp.cause \in Failures)') => store' = store]_vars

\* The identity fetch timed out after the token exchange had gone through, and
\* the stored session holds no token.
C9_Witness ==
    /\ FailedFetch /\ resp.at = "identity" /\ resp.cause = "timeout"
    /\ resp.sid \in DOMAIN store /\ store[resp.sid].access_token = ""

\* ------------------------------------------------------------------ C10
\* C10: after a callback whose token exchange or identity fetch failed the
\* session is Anonymous: no code_verifier is left and it is not authenticated.
C10_FailedFetchLeavesAnonymous ==
    FailedFetch => Anonymous(Stored(resp.sid))

\* ------------------------------------------------------------------ C11
\* A response to a callback whose exchange, identity fetch and save all succeeded.
SucceededCallback == resp.kind = "callback" /\ resp.at = "save" /\ resp.cause = ""

\* C11: after a successful callback the stored session has authenticated =
\* true, access_token and instance_url set, and holds neither a code_verifier
\* nor the custom domain host.
C11_SuccessfulCallbackState ==
    SucceededCallback =>
        /\ resp.sid \in DOMAIN store
        /\ store[resp.sid].authenticated
        /\ store[resp.sid].access_token # "" /\ store[resp.sid].instance_url # <<>>
        /\ store[resp.sid].code_verifier = 0
        /\ RecordedCustomDomain(store[resp.sid]) = <<>>

\* ------------------------------------------------------------------ C12
\* C12: the callback signals success only once its save completed, the store
\* then holding the authenticated session; when the save fails the browser
\* gets an error redirect and the step leaves the store as it was, so no later
\* request finds authenticated = true because of that callback.
C12_SuccessOnlyAfterSave ==
    /\ [](SucceededCallback =>
             (resp.sid \in DOMAIN store /\ store[resp.sid].authenticated
              /\ store[resp.sid].code_verifier = 0))
    /\ []((resp.kind = "callback" /\ resp.cause = "save") =>
             (resp.param = "error" /\ resp.msg = SaveFailedMessage))
    /\ [][((resp.kind = "callback" /\ resp.cause = "save")') => store' = store]_vars

\* The save of a callback failed: the browser was sent the error and the
\* stored session is not authenticated.
C12_Witness ==
    /\ resp.kind = "callback" /\ resp.cause = "save" /\ resp.param = "error"
    /\ resp.sid \in DOMAIN store /\ ~store[resp.sid].authenticated

\* ------------------------------------------------------------------ C13
\* What the front end's OAuth effect takes for a successful login.
FrontEndSeesSuccess(response) == response.param = "success" /\ response.msg = "1"

\* C13: every outcome of the callback is a redirect to the front end that
\* carries either success=1, exactly when the authentication succeeded, or
\* error=<message>.
C13_CallbackOutcomeParameter ==
    resp.kind = "callback" =>
        /\ resp.how = "redirect" /\ resp.to = FrontendUrl
        /\ IF SucceededCallback THEN FrontEndSeesSuccess(resp)
           ELSE resp.param = "error" /\ resp.msg # ""

\* ------------------------------------------------------------------ C14
\* A response to a logout whose destroy completed.
LogoutCompleted == resp.kind \in {"logout_post", "logout_get"} /\ resp.cause = ""

\* A logout response that reports success: the success JSON of POST, the
\* redirect without an error of GET.
LogoutReportsSuccess ==
    /\ resp.kind \in {"logout_post", "logout_get"}
    /\ IF resp.kind = "logout_post"
       THEN resp.how = "json" /\ resp.status = 200 /\ resp.param = "success"
       ELSE resp.how = "redirect" /\ resp.to = FrontendUrl /\ resp.param # "error"

\* C14: once a logout (POST or GET) has completed, the store holds no record
\* for the session id, hence none of access_token, refresh_token,
\* instance_url, username, email, userType, authenticated, code_verifier.
C14_LogoutDestroysRecord ==
    LogoutCompleted => resp.sid \notin DOMAIN store

\* A logout completed on a session that was stored before it.
C14_Witness ==
    LogoutCompleted /\ ~resp.fresh /\ resp.sid \notin DOMAIN store

\* ------------------------------------------------------------------ C15
\* C15: logout answers with success in whatever state it finds the session,
\* stored or not (no session, or right after a previous logout), and leaves
\* the session absent.
C15_LogoutIdempotent ==
    LogoutCompleted => (LogoutReportsSuccess /\ Stored(resp.sid) = EmptySession)

\* A logout succeeded for a browser whose cookie names a session that is gone.
C15_Witness ==
    /\ LogoutCompleted /\ LogoutReportsSuccess /\ resp.fresh
    /\ cookie # 0 /\ cookie \notin DOMAIN store

\* ------------------------------------------------------------------ C16
\* C16: every successful logout response, POST or GET, clears the sf.sid
\* cookie besides destroying the session record.
C16_LogoutClearsCookie ==
    (LogoutCompleted /\ LogoutReportsSuccess) =>
        (cookie = 0 /\ resp.sid \notin DOMAIN store)

\* ------------------------------------------------------------------ C17
\* C17: a request to a proxy endpoint whose session is not authenticated or
\* has no access_token is rejected as unauthenticated before any upstream
\* call: every upstream call in flight belongs to a stored session that is
\* authenticated with an access token, never to a request without a session.
C17_GuardBeforeUpstream ==
    /\ \A i \in DOMAIN reqs :
           (reqs[i].kind = "api" /\ reqs[i].pc = "upstream") =>
               /\ ~reqs[i].fresh
               /\ reqs[i].session.authenticated /\ reqs[i].session.access_token # ""
    /\ (resp.kind = "api" /\ resp.at # "upstream") =>
           (resp.status = 401 /\ resp.param = "error")
    /\ (resp.kind = "api" /\ resp.fresh) => resp.at # "upstream"

\* A proxy request without a session cookie was rejected with 401.
C17_Witness ==
    resp.kind = "api" /\ resp.fresh /\ cookie = 0 /\ resp.status = 401

\* ------------------------------------------------------------------ C18
\* C18: a callback with neither a code nor an error parameter is answered
\* with the missing-code error, makes no token request (every token request
\* in flight carries a code), and the step leaves the session store as it was.
C18_MissingCodeReported ==
    /\ []((resp.kind = "callback" /\ resp.query = "none") =>
             (resp.param = "error" /\ resp.msg = NoCodeMessage /\ resp.tokenUrl = <<>>))
    /\ [](\A i \in DOMAIN reqs :
             (reqs[i].kind = "callback" /\ reqs[i].tokenUrl # <<>>) => reqs[i].code # 0)
    /\ [][((resp.kind = "callback" /\ resp.query = "none")') => store' = store]_vars

\* A callback without code or error reached a session awaiting its callback
\* and left the pending verifier in place.
C18_Witness ==
    /\ resp.kind = "callback" /\ resp.query = "none" /\ resp.msg = NoCodeMessage
    /\ resp.had # 0 /\ Stored(resp.sid).code_verifier = resp.had

\* ------------------------------------------------------------------ C19
\* The host of a URL: what is left without the scheme and the path.
HostOf(url) ==
    SelectSeq(url, LAMBDA x : x \notin {"https://", "/", TokenPath[1], AuthorizePath[1]})

\* The token host the design assigns to a session's domain type.
ExpectedTokenHost(sess) ==
    IF sess.domain_type = "sandbox" THEN <<"test", ".salesforce.com">>
    ELSE IF sess.domain_type = "custom" /\ RecordedCustomDomain(sess) # <<>>
         THEN HostOf(RecordedCustomDomain(sess))
         ELSE <<"login", ".salesforce.com">>

\* C19: the token request of a callback goes to the token path of the host
\* chosen by the domain type its session stored at login: test.salesforce.com
\* for sandbox, the stored custom host for custom, login.salesforce.com for
\* production.
C19_TokenEndpointByDomainType ==
    \A i \in DOMAIN reqs :
        (reqs[i].kind = "callback" /\ reqs[i].pc = "exchange") =>
            /\ reqs[i].tokenUrl[Len(reqs[i].tokenUrl)] = TokenPath[1]
            /\ HostOf(reqs[i].tokenUrl) = ExpectedTokenHost(reqs[i].session)

\* A callback on a session that logged in with a custom domain posts to that host.
C19_Witness ==
    \E i \in DOMAIN reqs :
        /\ reqs[i].kind = "callback" /\ reqs[i].pc = "exchange"
        /\ reqs[i].session.domain_type = "custom"
        /\ HostOf(reqs[i].tokenUrl) = <<"acme.my", ".salesforce.com">>

\* ------------------------------------------------------------------ C20
\* C20: no message carries the verifier before the token exchange: the
\* authorization redirect of /login carries the S256 challenge of the stored
\* verifier and not the verifier, no other response carries either, and the
\* token request of the callback is the message that carries the verifier.
C20_VerifierOnlyInTokenRequest ==
    /\ ToProvider(resp) =>
           (resp.challenge = generateCodeChallenge(resp.had) /\ resp.challenge[1] = "S256")
    /\ ~ToProvider(resp) => resp.challenge = <<>>
    /\ \A i \in DOMAIN reqs :
           (reqs[i].kind = "callback" /\ reqs[i].pc = "exchange") =>
               (reqs[i].sent # 0 /\ reqs[i].sent = reqs[i].session.code_verifier)

\* /login stored verifier 2 and redirected with its S256 challenge.
C20_Witness ==
    /\ ToProvider(resp) /\ resp.had = 2 /\ resp.challenge = generateCodeChallenge(2)
    /\ Stored(resp.sid).code_verifier = 2

\* ------------------------------------------------------------------ C21
\* C21: the challenge in the authorization redirect of a /login is the S256
\* challenge of exactly the verifier that /login stored in the session; the
\* provider therefore holds, for every login attempt, the challenge of that
\* attempt's verifier; and the verifier a callback sends in its token request
\* is the one the session layer loaded from the store for it, whose challenge
\* the provider was given.
C21_ChallengeMatchesStoredVerifier ==
    /\ ToProvider(resp) =>
           /\ resp.sid \in DOMAIN store
           /\ resp.challenge = generateCodeChallenge(store[resp.sid].code_verifier)
    /\ \A k \in DOMAIN authz : authz[k].challenge = generateCodeChallenge(k)
    /\ \A i \in DOMAIN reqs :
           (reqs[i].kind = "callback" /\ reqs[i].pc = "exchange") =>
               /\ reqs[i].sent = reqs[i].savedHash.code_verifier
               /\ reqs[i].sent \in DOMAIN authz
               /\ authz[reqs[i].sent].challenge = generateCodeChallenge(reqs[i].sent)

\* The callback of the second login on a session sends verifier 2, the one
\* whose challenge the provider got when that login replaced verifier 1.
C21_Witness ==
    \E i \in DOMAIN reqs :
        /\ reqs[i].kind = "callback" /\ reqs[i].pc = "exchange"
        /\ reqs[i].sent = 2 /\ reqs[i].code = 2
        /\ authz[2].challenge = generateCodeChallenge(2) /\ authz[2].replaced = 1

\* ------------------------------------------------------------------ C29
\* C29: when the code of a login comes back on the session that still holds
\* that login's verifier, the callback's token request goes to the host the
\* login's authorization redirect went to, whatever domain value the login
\* was given: production, sandbox, custom with or without customDomain, or a
\* value the code does not recognise.
C29_TokenHostIsAuthorizationHost ==
    \A i \in DOMAIN reqs :
        (/\ reqs[i].kind = "callback" /\ reqs[i].pc = "exchange"
         /\ reqs[i].code = reqs[i].sent /\ reqs[i].code \in DOMAIN authz) =>
            HostOf(reqs[i].tokenUrl) = HostOf(authz[reqs[i].code].to)

\* The callback of a login with an unrecognised domain value posts to the
\* production host, where that login was authorized.
C29_Witness ==
    \E i \in DOMAIN reqs :
        /\ reqs[i].kind = "callback" /\ reqs[i].pc = "exchange"
        /\ reqs[i].code = reqs[i].sent /\ reqs[i].code \in DOMAIN authz
        /\ reqs[i].session.domain_type = "staging"
        /\ HostOf(authz[reqs[i].code].to) = <<"login", ".salesforce.com">>
        /\ HostOf(reqs[i].tokenUrl) = <<"login", ".salesforce.com">>

\* ------------------------------------------------------------------ C23
\* C23: a step puts a record for a new session id in the store only when it
\* answers a /login, or completes the save of a request that found its
\* session in the store when it arrived; a callback, a logout or a proxy
\* request that arrived without an existing session creates none.
C23_OnlyLoginCreatesSession ==
    [][\A sid \in (DOMAIN store') \ DOMAIN store :
          /\ resp'.sid = sid
          /\ \/ resp'.kind = "login"
             \/ \E i \in DOMAIN reqs : reqs[i].sid = sid /\ ~reqs[i].fresh]_vars

\* A callback carrying a code arrived without a session cookie and was
\* answered while the store stayed empty.
C23_Witness ==
    /\ resp.kind = "callback" /\ resp.query = "code" /\ resp.code # 0
    /\ cookie = 0 /\ DOMAIN store = {}

\* ------------------------------------------------------------------ C27
\* C27: a callback replayed on an authenticated session, with the same or
\* another code and no /login in between, is rejected with the session-expired
\* error, makes no token request and leaves the stored session as it was.
\* In three parts: the successful callback leaves no verifier in the stored
\* session; only a step answering a /login puts a verifier into a stored
\* session; and a callback with a code arriving at an authenticated session
\* without a verifier is answered at once with session-expired, no token
\* request and an unchanged store.
C27_ReplayedCallbackRejected ==
    /\ [](SucceededCallback =>
             (Stored(resp.sid).authenticated /\ Stored(resp.sid).code_verifier = 0))
    /\ [][\A sid \in DOMAIN store' :
             (store'[sid].code_verifier # 0 /\ store'[sid].code_verifier # Stored(sid).code_verifier)
                 => resp'.kind = "login"]_vars
    /\ [][\A code \in Codes \ {0} :
             (/\ reqs = <<>> /\ cookie \in DOMAIN store
              /\ store[cookie].authenticated /\ store[cookie].code_verifier = 0
              /\ \/ (resp'.kind = "callback" /\ resp'.query = "code" /\ resp'.code = code)
                 \/ \E i \in DOMAIN reqs' : reqs'[i].kind = "callback" /\ reqs'[i].code = code)
                 => /\ resp'.kind = "callback" /\ resp'.sid = cookie
                    /\ resp'.param = "error" /\ resp'.msg = SessionExpiredMessage
                    /\ resp'.tokenUrl = <<>>
                    /\ reqs' = <<>> /\ store' = store]_vars

\* The code that authenticated the session came back a second time and was
\* answered with session-expired, the session staying authenticated.
C27_Witness ==
    /\ CodeCallback /\ resp.code \in DOMAIN authz /\ resp.had = 0
    /\ resp.msg = SessionExpiredMessage /\ resp.tokenUrl = <<>>
    /\ Stored(resp.sid).authenticated /\ Stored(resp.sid).access_token # ""

\* ------------------------------------------------------------------ C30
\* C30: authenticated becomes true only in a callback whose token exchange,
\* made with the verifier its session held, and identity fetch both
\* succeeded.  A handler's session object turns authenticated only in the
\* step where the identity fetch of such a callback succeeds; a session
\* loaded for a new request is authenticated only if the stored one is; and
\* a stored session turns authenticated only by the save of such a callback
\* (or by another handler saving back a session it had loaded authenticated).
C30_OnlyCallbackAuthenticates ==
    /\ [][\A i \in DOMAIN reqs \cap DOMAIN reqs' :
             (/\ Len(reqs') = Len(reqs)
              /\ reqs'[i].session.authenticated /\ ~reqs[i].session.authenticated)
                 => /\ reqs[i].kind = "callback" /\ reqs[i].pc = "identity"
                    /\ reqs'[i].pc = "save"
                    /\ reqs[i].sent # 0 /\ reqs[i].sent = reqs[i].session.code_verifier
                    /\ ProviderAccepts(reqs[i].code, reqs[i].sent)]_vars
    /\ [][\A i \in DOMAIN reqs' \ DOMAIN reqs :
             reqs'[i].session.authenticated => Stored(reqs'[i].sid).authenticated]_vars
    /\ [][\A sid \in DOMAIN store' :
             (store'[sid].authenticated /\ ~Stored(sid).authenticated)
                 => \E i \in DOMAIN reqs :
                        /\ reqs[i].sid = sid /\ reqs[i].session.authenticated
                        /\ resp'.sid = sid
                        /\ reqs[i].kind = "callback" =>
                               (reqs[i].pc = "save" /\ SucceededCallback')]_vars

\* A callback's save has just stored the session as authenticated.
C30_Witness ==
    /\ SucceededCallback /\ resp.code = resp.sent /\ resp.sent # 0
    /\ Stored(resp.sid).authenticated

\* ------------------------------------------------------------------ C22
\* The steps of startServer().
StartUpStep == NoRedisConfigured \/ ConnectFails \/ ConnectSucceeds \/ InitializeSession \/ Listen

C24_UnlistedOriginDenied ==
    (/\ srv.last.by # "none" /\ srv.last.origin # ""
     /\ ~OriginListed(srv.server, srv.last.origin)) => srv.last.cors = "denied"

\* ------------------------------------------------------------------ C25
\* C25: the reconnect policy is a bounded retry with capped backoff: an
\* attempt that fails after n <= 10 retries waits min(n * 100, 3000) ms, a
\* delay that does not decrease from one attempt to the next and never exceeds
\* 3000 ms; asked after more than 10 retries the policy returns an error and
\* the client stops reconnecting.
C25_BoundedRetryCappedBackoff ==
    /\ [][srv'.retries = srv.retries + 1 =>
             /\ srv.retries <= RetryLimit
             /\ srv'.delay = Min(srv.retries * DelayStep, MaxDelay)
             /\ srv'.delay <= MaxDelay
             /\ srv'.delay >= srv.delay]_vars
    /\ [](srv.retries <= RetryLimit + 1)
    /\ [](\A n \in 1..RetryLimit :
             ReconnectStrategy(n) = [error |-> FALSE, delay |-> Min(n * DelayStep, MaxDelay)])
    /\ [][(srv.retries > RetryLimit /\ srv'.redis # srv.redis) =>
             \/ srv'.redis = "closed" /\ srv'.retries = srv.retries
             \/ srv'.redis = "ready" /\ srv'.retries = 0]_vars
    /\ [](srv.redis = "closed" => srv.retries = RetryLimit + 1)

\* A ready client lost its connection, waited 1000 ms after the tenth retry,
\* and stopped reconnecting when the policy returned the error.
C25_Witness ==
    /\ srv.phase = "listening" /\ srv.sessionStore = "redis"
    /\ srv.redis = "closed" /\ srv.retries = RetryLimit + 1
    /\ srv.delay = RetryLimit * DelayStep

\* ------------------------------------------------------------------ C26
\* The position of a layer in the middleware stack (0 when it is not there).
PositionOf(stack, layer) ==
    IF \E k \in DOMAIN stack : stack[k] = layer
    THEN CHOOSE k \in DOMAIN stack : stack[k] = layer
    ELSE 0

\* C26: in the stack of a listening server the session middleware comes
\* before the application routes and the not-found and error handlers, so a
\* request for /login, /oauth/callback, /logout or /api/* is answered with
\* req.session defined, and only /health and / are answered before the
\* session layer.
C26_SessionAheadOfRoutes ==
    /\ srv.phase = "listening" =>
           \A layer \in {"routes", "notFoundHandler", "errorHandler"} :
               /\ PositionOf(srv.stack, "session") > 0
               /\ PositionOf(srv.stack, "session") < PositionOf(srv.stack, layer)
    /\ srv.last.path \in RoutePaths => srv.last.session
    /\ (srv.last.by # "none" /\ ~srv.last.session) => srv.last.path \in {"/health", "/"}

\* ------------------------------------------------------------------ C28
\* A callback has been answered whose session record a logout destroyed while
\* the callback was suspended on the token exchange or the identity fetch,
\* and no request is left in flight.
CallbackOutlivedLogout == resp.kind = "callback" /\ resp.lost /\ reqs = <<>>

\* C28 as stated: when a logout completes while a callback on the same
\* session is suspended on the token exchange or the identity fetch, then
\* once both have finished the store holds no authenticated session for that
\* session id.
C28_NoAuthenticatedSessionAfterLogout ==
    CallbackOutlivedLogout => ~Stored(resp.sid).authenticated

\* C28 amended: the last write wins.  When the logout completes while the
\* callback is suspended, then once both have finished the store holds the
\* authenticated session, without a verifier, if the callback went on to
\* succeed and its save completed after the destroy; it holds no record for
\* that session id if the callback's exchange, identity fetch or save failed.
C28_LastWriteWins ==
    CallbackOutlivedLogout =>
        IF SucceededCallback
        THEN /\ resp.sid \in DOMAIN store
             /\ store[resp.sid].authenticated /\ store[resp.sid].code_verifier = 0
        ELSE resp.sid \notin DOMAIN store

\* The callback's save came after the logout's destroy: both requests are
\* done and the store holds the authenticated session.
C28_Witness ==
    /\ CallbackOutlivedLogout /\ SucceededCallback
    /\ Stored(resp.sid).authenticated

====
